---------------------------- MODULE Spec2Model ----------------------------
(***************************************************************************)
(* A model of the SliceOSM API server (src/main.go): the region validator  *)
(* parseInput, the node-count estimator GetPixel / GetSum, the bounded     *)
(* task queue with its workers, the progress registry and the status       *)
(* queries of Server.ServeHTTP.                                            *)
(*                                                                         *)
(* The specifications share the variables:                                 *)
(*   Spec          the server: POST handlers, workers and status queries   *)
(*   SpecAdmission the POST handlers against one worker                    *)
(*   SpecStatus    admitted submissions, one worker and status queries     *)
(*   SpecWorkers   admitted submissions against the workers                *)
(*   SpecQueue     admitted submissions against one worker                 *)
(*   SpecLive      SpecWorkers' steps on one worker, with fair workers     *)
(*   SpecFresh     GET /api: the freshness cache                           *)
(*   SpecParse     parseInput applied to one request body                  *)
(*   SpecPixel     GetPixel applied to one raster and one tile             *)
(*   SpecSum       GetSum applied to one raster and one family of covers   *)
(***************************************************************************)
EXTENDS Integers, Sequences, FiniteSets, TLC

VARIABLES
    image,        \* Server.image: the decoded density raster (immutable)
    nodesLimit,   \* Server.nodesLimit
    capacity,     \* cap(Server.queue)
    queue,        \* Server.queue: the buffered channel of Task
    progress,     \* Server.progress: map[string]Progress
    filesDir,     \* the files of Server.filesDir: file name -> content
    tmpDir,       \* the files of Server.tmpDir: file name -> content
    nextUuid,     \* the next identifier uuid.New() hands out
    sending,      \* the tasks whose POST handler has sent them and not yet recorded them
    posted,       \* the response a POST handler wrote in the last step, with its request
    wpc,          \* each worker's position in worker / runTask
    wtask,        \* each worker's task
    wstat,        \* each worker's stat.Size()
    wlast,        \* each worker's lastProgress
    qpc,          \* each status query's position
    qid,          \* each status query's identifier
    qafter,       \* history: the query began after its identifier's 201
    answered,     \* the response a status query wrote in the last step, with its id
    origin,       \* history: the request each task identifier was created for
    completed,    \* history: identifiers whose runTask returned nil
    failed,       \* history: identifiers whose runTask returned an error
    accepted,     \* history: identifiers whose submission was answered 201
    notFound,     \* history: accepted identifiers a later status query answered 404
    arrived,      \* history: the identifiers sent to the queue, in the order of the sends
    departed,     \* history: the identifiers received from the queue, in the order received
    lastLine,     \* history: per task running or completed, the last line its worker read
    now,          \* the clock, in seconds
    timestamp,    \* Server.lastUpdated.timestamp
    checkedAt,    \* Server.lastUpdated.checkedAt
    mutex,        \* Server.lastUpdated.mutex: its holder
    apc,          \* each GET /api request's position
    alen,         \* each GET /api request's l
    ran,          \* the outcome of the timestamp query run in the last step
    served,       \* the SystemState a GET /api request wrote in the last step
    parseIn,      \* SpecParse: the request body
    parseOut,     \* SpecParse: the result of parseInput
    pixelIn,      \* SpecPixel: the tile
    pixelOut,     \* SpecPixel: the result of GetPixel
    sumIn,        \* SpecSum: the coverings of the geometry
    sumOut        \* SpecSum: the result of GetSum

configVars == <<image, nodesLimit, capacity>>
fileVars == <<filesDir, tmpDir>>
workerVars == <<wpc, wtask, wstat, wlast>>
queryVars == <<qpc, qid, qafter>>
outVars == <<posted, answered>>
historyVars == <<origin, completed, failed, accepted, notFound>>
orderVars == <<arrived, departed, lastLine>>
cacheVars == <<now, timestamp, checkedAt, mutex, apc, alen, ran, served>>
pureVars == <<parseIn, parseOut, pixelIn, pixelOut, sumIn, sumOut>>
vars == <<configVars, queue, progress, fileVars, nextUuid, sending, workerVars,
          queryVars, outVars, historyVars, orderVars, cacheVars, pureVars>>

Nil == [kind |-> "nil"]

(***************************************************************************)
(* Bounds of the model.                                                    *)
(***************************************************************************)
\* largest coordinate of a point of a submitted region
MaxCoord == 1
\* longest ring of a submitted polygon
MaxRingLen == 4
\* zoom levels checked around the reference zoom: 12 - MaxDz .. 12 + MaxDz
MaxDz == 2
\* largest tile coordinate passed to GetPixel
MaxTile == 4
\* the seconds the clock of the model runs
MaxTime == 12
\* the capacity of the task queue in the model (the program's is 512)
QueueCap == 1
\* the number of submissions that reach uuid.New()
MaxTasks == 2

Min(a, b) == IF a < b THEN a ELSE b
Max(a, b) == IF a > b THEN a ELSE b
Abs(a) == IF a < 0 THEN -a ELSE a

RECURSIVE Pow2(_)
Pow2(n) == IF n <= 0 THEN 1 ELSE 2 * Pow2(n - 1)

\* Go's a << n on int
Shl(a, n) == a * Pow2(n)

(***************************************************************************)
(* The region validator: parseInput.                                       *)
(*                                                                         *)
(* A request body is either not JSON for an Input, or an Input             *)
(* {Name, RegionType, RegionData}.  RegionData is a raw JSON message: a    *)
(* GeoJSON geometry object, an array of numbers, or null.  A point is      *)
(* <<lon, lat>>, a ring a sequence of points, a polygon a sequence of      *)
(* rings, a multipolygon a sequence of polygons.                           *)
(***************************************************************************)
ParseError == [err |-> TRUE, geom |-> Nil, name |-> "", regionType |-> "",
               data |-> Nil]

\* geojson.UnmarshalGeometry: fails unless the message is a geometry object
UnmarshalGeometry(raw) ==
    IF raw.kind \in {"Point", "LineString", "Polygon", "MultiPolygon"}
    THEN [err |-> FALSE, geom |-> raw]
    ELSE [err |-> TRUE, geom |-> Nil]

\* json.Unmarshal(input.RegionData, &coords): coords stays nil on failure
UnmarshalCoords(raw) == IF raw.kind = "array" THEN raw.val ELSE <<>>

\* a variant of the ring test that lets a ring of three coordinates pass
RingTooShortByOne(ring) == Len(ring) < 3

\* len(ring) < 4
RingTooShort(ring) == Len(ring) < 4

\* the switch of parseInput over the geometry's type: TRUE when it returns an error
RingCheckFails(geom) ==
    CASE geom.kind = "Polygon" ->
            \/ Len(geom.val) = 0
            \/ \E i \in 1..Len(geom.val) : RingTooShort(geom.val[i])
      [] geom.kind = "MultiPolygon" ->
            \/ Len(geom.val) = 0
            \/ \E p \in 1..Len(geom.val) :
                  \/ Len(geom.val[p]) = 0
                  \/ \E i \in 1..Len(geom.val[p]) : RingTooShort(geom.val[p][i])
      [] OTHER -> FALSE

\* orb.MultiPoint{{c[1], c[0]}, {c[3], c[2]}}.Bound()
BoundOf(c) ==
    [kind |-> "Bound",
     val  |-> << <<Min(c[2], c[4]), Min(c[1], c[3])>>,
                 <<Max(c[2], c[4]), Max(c[1], c[3])>> >>]

\* twice the signed area of a ring, as planar.Area sums it from the first point
RECURSIVE RingArea2(_, _)
RingArea2(r, i) ==
    IF i > Len(r) - 1 THEN 0
    ELSE (r[i][1] - r[1][1]) * (r[i + 1][2] - r[1][2])
         - (r[i + 1][1] - r[1][1]) * (r[i][2] - r[1][2])
         + RingArea2(r, i + 1)

RECURSIVE HolesArea2(_, _)
HolesArea2(p, i) ==
    IF i > Len(p) THEN 0 ELSE Abs(RingArea2(p[i], 2)) + HolesArea2(p, i + 1)

PolygonArea2(p) ==
    IF Len(p) = 0 THEN 0 ELSE Abs(RingArea2(p[1], 2)) - HolesArea2(p, 2)

RECURSIVE MultiPolygonArea2(_, _)
MultiPolygonArea2(mp, i) ==
    IF i > Len(mp) THEN 0 ELSE PolygonArea2(mp[i]) + MultiPolygonArea2(mp, i + 1)

\* planar.Area(geom), doubled so that it stays an integer
Area2(geom) ==
    CASE geom.kind = "Polygon" -> PolygonArea2(geom.val)
      [] geom.kind = "MultiPolygon" -> MultiPolygonArea2(geom.val, 1)
      [] geom.kind = "Bound" ->
            2 * (geom.val[2][1] - geom.val[1][1]) * (geom.val[2][2] - geom.val[1][2])
      [] OTHER -> 0

ParseGeojson(input) ==
    LET u == UnmarshalGeometry(input.RegionData) IN
    IF u.err THEN ParseError
    ELSE IF RingCheckFails(u.geom) THEN ParseError
    ELSE IF Area2(u.geom) = 0 THEN ParseError
    ELSE [err |-> FALSE, geom |-> u.geom, name |-> input.Name,
          regionType |-> input.RegionType, data |-> u.geom]

ParseBbox(input) ==
    LET coords == UnmarshalCoords(input.RegionData) IN
    IF Len(coords) < 4 THEN ParseError
    ELSE IF Area2(BoundOf(coords)) = 0 THEN ParseError
    ELSE [err |-> FALSE, geom |-> BoundOf(coords), name |-> input.Name,
          regionType |-> input.RegionType,
          data |-> [kind |-> "array", val |-> SubSeq(coords, 1, 4)]]

\* parseInput(body)
parseInput(body) ==
    IF ~body.json THEN ParseError
    ELSE IF body.RegionType = "geojson" THEN ParseGeojson(body)
    ELSE IF body.RegionType = "bbox" THEN ParseBbox(body)
    ELSE ParseError

(***************************************************************************)
(* The node-count estimator: GetPixel and GetSum.                          *)
(*                                                                         *)
(* A raster is a function from the cells <<x, y>> that carry a value to    *)
(* their 8-bit channels [R, G]; every other cell is zero, as is every      *)
(* point outside the image's bounds.  The raster is opaque: RGBA() widens  *)
(* each channel to 16 bits.  A float64 result is the fraction num / den,   *)
(* den a power of two, which float64 represents exactly.                   *)
(***************************************************************************)
\* image.At(x, y)
At(img, x, y) ==
    IF <<x, y>> \in DOMAIN img THEN img[<<x, y>>] ELSE [R |-> 0, G |-> 0]

\* color.RGBA(): 8-bit channels widened to 16 bits (c | c << 8)
RGBA(c) == [red |-> c.R + Shl(c.R, 8), green |-> c.G + Shl(c.G, 8)]

\* Go's v >> 8
Shr8(v) == v \div 256

\* float64(int(red>>8)*256) + float64(green>>8)
PixelValue(img, x, y) ==
    LET c == RGBA(At(img, x, y)) IN Shr8(c.red) * 256 + Shr8(c.green)

\* for iy := y*dz; iy < y*dz+dz; iy++ { acc += ... }
RECURSIVE PixelLoopY(_, _, _, _)
PixelLoopY(img, ix, iy, yEnd) ==
    IF ~(iy < yEnd) THEN 0
    ELSE PixelValue(img, ix, iy) + PixelLoopY(img, ix, iy + 1, yEnd)

\* for ix := x*dz; ix < x*dz+dz; ix++ { ... }
RECURSIVE PixelLoopX(_, _, _, _, _)
PixelLoopX(img, ix, xEnd, y, dz) ==
    IF ~(ix < xEnd) THEN 0
    ELSE PixelLoopY(img, ix, y * dz, y * dz + dz)
         + PixelLoopX(img, ix + 1, xEnd, y, dz)

\* a variant of the coarse block width that shifts one place too far
CoarseDzDoubled(z) == Shl(2, 12 - z)

\* dz := 2 << ((12 - z) - 1)
CoarseDz(z) == Shl(2, (12 - z) - 1)

\* dz := 2 << ((z - 12) - 1)
FineDz(z) == Shl(2, (z - 12) - 1)

\* GetPixel(image, z, x, y)
GetPixel(img, z, x, y) ==
    IF z < 12 THEN
        LET dz == CoarseDz(z) IN
        [num |-> PixelLoopX(img, x * dz, x * dz + dz, y, dz), den |-> 1]
    ELSE IF z = 12 THEN
        [num |-> PixelValue(img, x, y), den |-> 1]
    ELSE
        LET dz == FineDz(z) IN
        [num |-> PixelValue(img, x \div dz, y \div dz), den |-> dz * dz]

\* a + b on float64, exact for fractions whose denominators are powers of two
FracAdd(a, b) ==
    LET den == Max(a.den, b.den) IN
    [num |-> a.num * (den \div a.den) + b.num * (den \div b.den), den |-> den]

\* a variant of the threshold test that also stops at a covering of 256 tiles
TooManyOrEqual(n) == n >= 256

\* len(covering) > 256
TooMany(n) == n > 256

\* the covering the loop of GetSum ends with, scanning from zoom z
RECURSIVE ZoomScan(_, _)
ZoomScan(cover, z) ==
    IF TooMany(Cardinality(cover[z])) \/ z = 14 THEN cover[z]
    ELSE ZoomScan(cover, z + 1)

\* for t := range covering { sum += GetPixel(image, t.Z, t.X, t.Y) }: the range over
\* a map visits the tiles in no fixed order; here the columns lo..hi of the tile
\* grid by halves, down to one column or a pair of tiles
RECURSIVE SumColumn(_, _)
SumColumn(img, tiles) ==
    IF tiles = {} THEN [num |-> 0, den |-> 1]
    ELSE LET t == CHOOSE u \in tiles : TRUE IN
         FracAdd(GetPixel(img, t.Z, t.X, t.Y), SumColumn(img, tiles \ {t}))

RECURSIVE SumSpan(_, _, _, _)
SumSpan(img, tiles, lo, hi) ==
    IF tiles = {} THEN [num |-> 0, den |-> 1]
    ELSE IF lo = hi \/ Cardinality(tiles) <= 2 THEN SumColumn(img, tiles)
    ELSE LET mid == (lo + hi) \div 2 IN
         CHOOSE sum \in {FracAdd(l, r) :
                            l \in {SumSpan(img, {t \in tiles : t.X <= mid}, lo, mid)},
                            r \in {SumSpan(img, {t \in tiles : t.X > mid}, mid + 1, hi)}} :
             TRUE

SumTiles(img, tiles) == SumSpan(img, tiles, 0, Pow2(14) - 1)

\* GetSum(image, geom); cover[z] is tilecover.Geometry(geom, z)
GetSum(img, cover) ==
    LET sum == SumTiles(img, ZoomScan(cover, 0)) IN (sum.num * 32) \div sum.den


(***************************************************************************)
(* The server's data.                                                      *)
(***************************************************************************)
\* runtime.NumCPU() of the machine of the model
NumCPU == 2
\* the workers StartWorkers started: worker i for 0 <= i < runtime.NumCPU()
Workers == DOMAIN wpc
\* the status queries in flight at once
Queries == {"q1"}

Uuids == 1..MaxTasks
\* an identifier uuid.New() never hands out
UnknownUuid == 0

ProgressFields == {"Timestamp", "CellsTotal", "CellsProg", "NodesTotal", "NodesProg",
                   "ElemsTotal", "ElemsProg", "SizeBytes", "Elapsed", "Complete"}

\* Go's zero value of a field of Progress
ZeroOf(f) == IF f = "Timestamp" THEN "" ELSE IF f = "Complete" THEN FALSE ELSE 0

\* Progress{}
EmptyProgress == [f \in ProgressFields |-> ZeroOf(f)]

\* the documents the extraction tool writes, one per line: members present -> value
LineDocs == {[CellsTotal |-> 2, CellsProg |-> 1], [NodesProg |-> 1]}

\* json.NewDecoder(line).Decode(&target): the members of the line overwrite target's
Decode(target, doc) ==
    [f \in ProgressFields |-> IF f \in DOMAIN doc THEN doc[f] ELSE target[f]]

\* a variant of the line decoding that decodes onto the previous snapshot
ParsedLineMerged(previous, doc) == Decode(previous, doc)

\* var progress Progress; Decode(&progress): each line is decoded onto a fresh Progress
ParsedLine(previous, doc) == Decode(EmptyProgress, doc)

NoTask == [Uuid |-> UnknownUuid, SanitizedName |-> "", SanitizedRegionType |-> "",
           SanitizedRegionData |-> Nil]
NoResponse == [code |-> 0, body |-> Nil]
Response(code, body) == [code |-> code, body |-> body]

\* the file names of runTask and of the status query
RecordFile(uuid) == <<uuid, "">>
EchoFile(uuid) == <<uuid, "_region.json">>
PbfFile(uuid) == <<uuid, ".osm.pbf">>
RegionFile(task) == <<task.Uuid, task.SanitizedRegionType>>

\* a variant of the removal that removes nothing
DropNothing(f, k) == f

\* a map or a directory with one entry written, and with one entry removed
Put(f, k, v) == [x \in DOMAIN f \cup {k} |-> IF x = k THEN v ELSE f[x]]
Drop(f, k) == [x \in DOMAIN f \ {k} |-> f[x]]
NoEntries == [x \in {} |-> Nil]
\* h.progress[uuid]: the zero Progress when the key is absent
Lookup(m, k) == IF k \in DOMAIN m THEN m[k] ELSE EmptyProgress

\* the size os.Stat reports for the artifact the tool produced
ArtifactSize == 7

(***************************************************************************)
(* The requests of the server specification: a body and, for its geometry, *)
(* the coverings tilecover.Geometry returns at zoom 0..14.                 *)
(***************************************************************************)
Tile(z, x, y) == [Z |-> z, X |-> x, Y |-> y]
Body(name, type, data) ==
    [json |-> TRUE, Name |-> name, RegionType |-> type, RegionData |-> data]
Triangle == << <<0, 0>>, <<1, 1>>, <<1, 0>>, <<0, 0>> >>

ReqSmall ==
    [body  |-> Body("a_name", "geojson", [kind |-> "Polygon", val |-> <<Triangle>>]),
     cover |-> [z \in 0..14 |-> {Tile(z, 0, 0)}]]
ReqLarge ==
    [body  |-> Body("a_name", "bbox", [kind |-> "array", val |-> <<0, 0, 1, 1>>]),
     cover |-> [z \in 0..14 |-> {Tile(z, 0, 0), Tile(z, 1, 0)}]]
ReqShortRing ==
    [body  |-> Body("a_name", "geojson",
                    [kind |-> "Polygon", val |-> <<SubSeq(Triangle, 1, 3)>>]),
     cover |-> [z \in 0..14 |-> {Tile(z, 0, 0)}]]
ServerRequests == {ReqSmall, ReqLarge, ReqShortRing}
NoRequest == [body |-> [json |-> FALSE, Name |-> "", RegionType |-> "", RegionData |-> Nil],
              cover |-> [z \in 0..14 |-> {}]]

\* the raster of the server specification: one cell of value 8
ServerImage == [c \in {<<0, 0>>} |-> [R |-> 0, G |-> 8]]
\* the -nodesLimit of the server specification: the estimate of ReqSmall
ServerNodesLimit == 16

NoPost == [req |-> NoRequest, resp |-> NoResponse]

\* the zero time.Time of a LastUpdated never written, in seconds before the start
ZeroTime == -100000
\* the lock of LastUpdated when no request holds it
Unlocked == "unlocked"
\* the GET /api requests in flight at once
ApiQueries == {"a1", "a2"}
\* no timestamp query ran, no SystemState was written
NoRun == [kind |-> "none", ts |-> ZeroTime]
NoState == [Status |-> "", QueueSize |-> 0, NodesLimit |-> 0, Timestamp |-> ZeroTime]
NoAnswer == [id |-> UnknownUuid, resp |-> NoResponse]

(***************************************************************************)
(* The server: Init is the state after StartWorkers.                       *)
(***************************************************************************)
PureIdle ==
    /\ parseIn = Nil /\ parseOut = Nil
    /\ pixelIn = Nil /\ pixelOut = Nil
    /\ sumIn = Nil /\ sumOut = Nil

\* StartWorkers on a machine of n processors with a queue of cap slots, before any request
StartedWith(n, cap) ==
    /\ nodesLimit = ServerNodesLimit
    /\ capacity = cap
    /\ queue = <<>>
    /\ progress = NoEntries
    /\ filesDir = NoEntries
    /\ tmpDir = NoEntries
    /\ nextUuid = 1
    /\ sending = {}
    /\ posted = NoPost
    /\ wpc = [w \in 0..(n - 1) |-> "idle"]
    /\ wtask = [w \in 0..(n - 1) |-> NoTask]
    /\ wstat = [w \in 0..(n - 1) |-> 0]
    /\ wlast = [w \in 0..(n - 1) |-> EmptyProgress]
    /\ qpc = [q \in Queries |-> "idle"]
    /\ qid = [q \in Queries |-> UnknownUuid]
    /\ qafter = [q \in Queries |-> FALSE]
    /\ answered = NoAnswer
    /\ origin = NoEntries
    /\ completed = {}
    /\ failed = {}
    /\ accepted = {}
    /\ notFound = {}
    /\ arrived = <<>>
    /\ departed = <<>>
    /\ lastLine = NoEntries
    /\ now = 0
    /\ timestamp = ZeroTime
    /\ checkedAt = ZeroTime
    /\ mutex = Unlocked
    /\ apc = [a \in ApiQueries |-> "idle"]
    /\ alen = [a \in ApiQueries |-> 0]
    /\ ran = NoRun
    /\ served = NoState

\* StartWorkers as the program calls it
Started(n) == StartedWith(n, QueueCap)

Init ==
    /\ image = ServerImage
    /\ Started(NumCPU)
    /\ PureIdle

\* a step that writes no response
Quiet == posted' = NoPost /\ answered' = NoAnswer

(***************************************************************************)
(* POST: Server.ServeHTTP, r.Method == "POST".  Every request runs in a    *)
(* goroutine of its own.                                                   *)
(***************************************************************************)
\* a variant of the full test for a buffer of one more slot
ChanFullOffByOne(q) == Len(q) > capacity

\* the send of the select cannot proceed: the channel's buffer is full
ChanFull(q) == Len(q) >= capacity

\* a variant of the limit test that also refuses an estimate equal to the limit
OverLimitOrEqual(estimate, limit) == estimate >= limit

\* GetSum(h.image, geom) > h.nodesLimit
OverLimit(estimate, limit) == estimate > limit

\* Task{Uuid: uuid.New().String(), ...}
NewTask(p) ==
    [Uuid |-> nextUuid, SanitizedName |-> p.name, SanitizedRegionType |-> p.regionType,
     SanitizedRegionData |-> p.data]

\* parseInput fails, or the estimate exceeds the limit: 400 and return
PostReject(req) ==
    /\ LET p == parseInput(req.body) IN
       \/ p.err
       \/ /\ ~p.err
          /\ OverLimit(GetSum(image, req.cover), nodesLimit)
    /\ posted' = [req |-> req, resp |-> Response(400, Nil)]
    /\ answered' = NoAnswer
    /\ UNCHANGED <<configVars, queue, progress, fileVars, nextUuid, sending,
                   workerVars, queryVars, historyVars, orderVars, cacheVars, pureVars>>

\* the request is admitted: the task is built and the select sends it or answers 503
PostAdmit(req) ==
    /\ nextUuid <= MaxTasks
    /\ LET p == parseInput(req.body)
           task == NewTask(p) IN
       /\ ~p.err
       /\ ~OverLimit(GetSum(image, req.cover), nodesLimit)
       /\ nextUuid' = nextUuid + 1
       /\ origin' = Put(origin, task.Uuid, req)
       /\ IF ChanFull(queue)
          THEN /\ posted' = [req |-> req, resp |-> Response(503, Nil)]
               /\ UNCHANGED <<queue, sending, arrived>>
          ELSE /\ queue' = Append(queue, task)
               /\ sending' = sending \cup {task}
               /\ arrived' = Append(arrived, task.Uuid)
               /\ posted' = NoPost
    /\ answered' = NoAnswer
    /\ UNCHANGED <<configVars, progress, fileVars, workerVars, queryVars,
                   completed, failed, accepted, notFound, departed, lastLine, cacheVars,
                   pureVars>>

\* case h.queue <- task: h.progress[task.Uuid] = progress; 201 with the identifier
PostRecord(task) ==
    /\ task \in sending
    /\ progress' = Put(progress, task.Uuid, EmptyProgress)
    /\ sending' = sending \ {task}
    /\ accepted' = accepted \cup {task.Uuid}
    /\ posted' = [req |-> origin[task.Uuid], resp |-> Response(201, task.Uuid)]
    /\ answered' = NoAnswer
    /\ UNCHANGED <<configVars, queue, fileVars, nextUuid, workerVars, queryVars,
                   origin, completed, failed, notFound, orderVars, cacheVars, pureVars>>

(***************************************************************************)
(* The workers: Server.worker and Server.runTask.  The workers differ only *)
(* in the id they print, so of the workers waiting on the queue the one    *)
(* with the least id receives.                                             *)
(***************************************************************************)
\* what runTask writes to the region file: a bbox loses its brackets
RegionText(task) ==
    IF task.SanitizedRegionType = "bbox"
    THEN [kind |-> "bare", val |-> task.SanitizedRegionData.val]
    ELSE task.SanitizedRegionData

\* a variant of the return after which the worker runs the same task again
ReturnRetries(w) ==
    /\ wpc' = [wpc EXCEPT ![w] = "record"]
    /\ UNCHANGED <<wtask, wstat, wlast>>

\* a variant of the return after which the worker leaves its loop
ReturnStops(w) ==
    /\ wpc' = [wpc EXCEPT ![w] = "stopped"]
    /\ wtask' = [wtask EXCEPT ![w] = NoTask]
    /\ wstat' = [wstat EXCEPT ![w] = 0]
    /\ wlast' = [wlast EXCEPT ![w] = EmptyProgress]

\* runTask returns (nil or an error): the worker goes back to the range over the queue
Return(w) ==
    /\ wpc' = [wpc EXCEPT ![w] = "idle"]
    /\ wtask' = [wtask EXCEPT ![w] = NoTask]
    /\ wstat' = [wstat EXCEPT ![w] = 0]
    /\ wlast' = [wlast EXCEPT ![w] = EmptyProgress]

Goto(w, pos) ==
    /\ wpc' = [wpc EXCEPT ![w] = pos]
    /\ UNCHANGED <<wtask, wstat, wlast>>

\* a variant of the receive that leaves the task in the channel
ReceiveKeeps(q) == [task |-> Head(q), rest |-> q]

\* a variant of the receive that takes the task sent last
ReceiveLast(q) == [task |-> q[Len(q)], rest |-> SubSeq(q, 1, Len(q) - 1)]

\* a receive from the channel: the task sent first, and the tasks left in the buffer
Receive(q) == [task |-> Head(q), rest |-> Tail(q)]

\* for task := range queue
Dequeue(w) ==
    /\ wpc[w] = "idle"
    /\ \A v \in Workers : wpc[v] = "idle" => w <= v
    /\ queue # <<>>
    /\ wtask' = [wtask EXCEPT ![w] = Receive(queue).task]
    /\ queue' = Receive(queue).rest
    /\ departed' = Append(departed, Receive(queue).task.Uuid)
    /\ wpc' = [wpc EXCEPT ![w] = "record"]
    /\ Quiet
    /\ UNCHANGED <<wstat, wlast, configVars, progress, fileVars, nextUuid,
                   sending, queryVars, historyVars, arrived, lastLine, cacheVars, pureVars>>

\* h.progress[task.Uuid] = Progress{}
WorkerRecord(w) ==
    /\ wpc[w] = "record"
    /\ progress' = Put(progress, wtask[w].Uuid, EmptyProgress)
    /\ Goto(w, "create")
    /\ Quiet
    /\ UNCHANGED <<configVars, queue, fileVars, nextUuid, sending, queryVars,
                   historyVars, orderVars, cacheVars, pureVars>>

\* os.Create(regionPath); out.Write; out.Close
CreateRegion(w) ==
    /\ wpc[w] = "create"
    /\ tmpDir' = Put(tmpDir, RegionFile(wtask[w]), RegionText(wtask[w]))
    /\ Goto(w, "echo")
    /\ Quiet
    /\ UNCHANGED <<configVars, queue, progress, filesDir, nextUuid, sending,
                   queryVars, historyVars, orderVars, cacheVars, pureVars>>

\* ioutil.WriteFile(filesDir/uuid_region.json, taskJson)
WriteEcho(w) ==
    /\ wpc[w] = "echo"
    /\ filesDir' = Put(filesDir, EchoFile(wtask[w].Uuid), wtask[w])
    /\ Goto(w, "start")
    /\ Quiet
    /\ UNCHANGED <<configVars, queue, progress, tmpDir, nextUuid, sending,
                   queryVars, historyVars, orderVars, cacheVars, pureVars>>

\* cmd.Start()
StartTool(w) ==
    /\ wpc[w] = "start"
    /\ Goto(w, "read")
    /\ Quiet
    /\ UNCHANGED <<configVars, queue, progress, fileVars, nextUuid, sending,
                   queryVars, historyVars, orderVars, cacheVars, pureVars>>

\* a line is read and decoded: h.progress[uuid] = progress
ReadLine(w, doc) ==
    /\ wpc[w] = "read"
    /\ progress' = Put(progress, wtask[w].Uuid,
                       ParsedLine(Lookup(progress, wtask[w].Uuid), doc))
    /\ lastLine' = Put(lastLine, wtask[w].Uuid, doc)
    /\ Quiet
    /\ UNCHANGED <<workerVars, configVars, queue, fileVars, nextUuid,
                   sending, queryVars, historyVars, arrived, departed, cacheVars, pureVars>>

\* ReadString returns an error (the output ended): on to cmd.Wait()
ReadEnd(w) ==
    /\ wpc[w] = "read"
    /\ Goto(w, "wait")
    /\ Quiet
    /\ UNCHANGED <<configVars, queue, progress, fileVars, nextUuid, sending,
                   queryVars, historyVars, orderVars, cacheVars, pureVars>>

\* cmd.Wait() returns nil: the tool exited with success and left its artifact
WaitTool(w) ==
    /\ wpc[w] = "wait"
    /\ tmpDir' = Put(tmpDir, PbfFile(wtask[w].Uuid), ArtifactSize)
    /\ Goto(w, "open")
    /\ Quiet
    /\ UNCHANGED <<configVars, queue, progress, filesDir, nextUuid, sending,
                   queryVars, historyVars, orderVars, cacheVars, pureVars>>

\* os.Open(pbfPath); f.Stat()
OpenArtifact(w) ==
    /\ wpc[w] = "open"
    /\ PbfFile(wtask[w].Uuid) \in DOMAIN tmpDir
    /\ wstat' = [wstat EXCEPT ![w] = tmpDir[PbfFile(wtask[w].Uuid)]]
    /\ wpc' = [wpc EXCEPT ![w] = "rename"]
    /\ Quiet
    /\ UNCHANGED <<wtask, wlast, configVars, queue, progress, fileVars,
                   nextUuid, sending, queryVars, historyVars, orderVars, cacheVars, pureVars>>

\* os.Rename(pbfPath, filesDir/uuid.osm.pbf)
RenameArtifact(w) ==
    /\ wpc[w] = "rename"
    /\ filesDir' = Put(filesDir, PbfFile(wtask[w].Uuid), tmpDir[PbfFile(wtask[w].Uuid)])
    /\ tmpDir' = Drop(tmpDir, PbfFile(wtask[w].Uuid))
    /\ Goto(w, "remove")
    /\ Quiet
    /\ UNCHANGED <<configVars, queue, progress, nextUuid, sending, queryVars,
                   historyVars, orderVars, cacheVars, pureVars>>

\* os.Remove(regionPath)
RemoveRegion(w) ==
    /\ wpc[w] = "remove"
    /\ tmpDir' = Drop(tmpDir, RegionFile(wtask[w]))
    /\ Goto(w, "finish")
    /\ Quiet
    /\ UNCHANGED <<configVars, queue, progress, filesDir, nextUuid, sending,
                   queryVars, historyVars, orderVars, cacheVars, pureVars>>

\* lastProgress = h.progress[uuid]; delete(h.progress, uuid)
Finish(w) ==
    /\ wpc[w] = "finish"
    /\ wlast' = [wlast EXCEPT ![w] = Lookup(progress, wtask[w].Uuid)]
    /\ progress' = Drop(progress, wtask[w].Uuid)
    /\ wpc' = [wpc EXCEPT ![w] = "persist"]
    /\ Quiet
    /\ UNCHANGED <<wtask, wstat, configVars, queue, fileVars, nextUuid,
                   sending, queryVars, historyVars, orderVars, cacheVars, pureVars>>

\* the final record: Elapsed, Complete and SizeBytes set on lastProgress
FinalRecord(last, size) ==
    [last EXCEPT !.Elapsed = 1, !.Complete = TRUE, !.SizeBytes = size]

\* ioutil.WriteFile(filesDir/uuid, completion); return nil
Persist(w) ==
    /\ wpc[w] = "persist"
    /\ filesDir' = Put(filesDir, RecordFile(wtask[w].Uuid), FinalRecord(wlast[w], wstat[w]))
    /\ completed' = completed \cup {wtask[w].Uuid}
    /\ Return(w)
    /\ Quiet
    /\ UNCHANGED <<configVars, queue, progress, tmpDir, nextUuid, sending,
                   queryVars, origin, failed, accepted, notFound, orderVars, cacheVars, pureVars>>

\* the positions of runTask at which a call can return an error
FailingPositions ==
    {"create", "echo", "start", "read", "wait", "open", "rename", "remove", "persist"}

\* a step of runTask fails: return err; the worker reports it and takes the next task
FailStep(w) ==
    /\ wpc[w] \in FailingPositions
    /\ failed' = failed \cup {wtask[w].Uuid}
    /\ lastLine' = Drop(lastLine, wtask[w].Uuid)
    /\ Return(w)
    /\ Quiet
    /\ UNCHANGED <<configVars, queue, progress, fileVars, nextUuid, sending,
                   queryVars, origin, completed, accepted, notFound, arrived, departed,
                   cacheVars, pureVars>>

(***************************************************************************)
(* GET /api/<id>: the status query of Server.ServeHTTP.                    *)
(***************************************************************************)
\* a variant of the lookup that prefers a stored record to the registry
RegistryHitUnlessStored(id) ==
    id \in DOMAIN progress /\ RecordFile(id) \notin DOMAIN filesDir

\* progress, ok := h.progress[uuid]
RegistryHit(id) == id \in DOMAIN progress

\* if ok: answered from the registry; else on to os.Stat
QueryRegistry(q, id) ==
    /\ qpc[q] = "idle"
    /\ IF RegistryHit(id)
       THEN /\ answered' = [id |-> id, resp |-> Response(200, progress[id])]
            /\ UNCHANGED <<qpc, qid, qafter>>
       ELSE /\ qpc' = [qpc EXCEPT ![q] = "stat"]
            /\ qid' = [qid EXCEPT ![q] = id]
            /\ qafter' = [qafter EXCEPT ![q] = id \in accepted]
            /\ answered' = NoAnswer
    /\ posted' = NoPost
    /\ UNCHANGED <<configVars, queue, progress, fileVars, nextUuid, sending,
                   workerVars, historyVars, orderVars, cacheVars, pureVars>>

\* os.Stat(resultPath): the record is streamed, or 404
QueryStorage(q) ==
    /\ qpc[q] = "stat"
    /\ qpc' = [qpc EXCEPT ![q] = "idle"]
    /\ qid' = [qid EXCEPT ![q] = UnknownUuid]
    /\ qafter' = [qafter EXCEPT ![q] = FALSE]
    /\ IF RecordFile(qid[q]) \in DOMAIN filesDir
       THEN /\ answered' = [id |-> qid[q],
                            resp |-> Response(200, filesDir[RecordFile(qid[q])])]
            /\ UNCHANGED notFound
       ELSE /\ answered' = [id |-> qid[q], resp |-> Response(404, Nil)]
            /\ notFound' = IF qafter[q] THEN notFound \cup {qid[q]} ELSE notFound
    /\ posted' = NoPost
    /\ UNCHANGED <<configVars, queue, progress, fileVars, nextUuid, sending,
                   workerVars, origin, completed, failed, accepted, orderVars, cacheVars, pureVars>>

(***************************************************************************)
(* GET /api: the system status of Server.ServeHTTP and its freshness cache *)
(* Server.lastUpdated.  Times are whole seconds.                           *)
(***************************************************************************)
\* time.Since(h.lastUpdated.checkedAt).Seconds() > 10
RefreshAfter == 10
\* time.Now().Sub(timestamp).Minutes() > 15, in seconds
WarnAfter == 900

\* the cache is due for a refresh at time t
Due(t, checked) == t - checked > RefreshAfter

\* what exec "query data timestamp" prints at time t, as time.Parse reads it: a
\* timestamp of a dataset that is current or out of date, or no timestamp
ToolOutputs(t) ==
    {[kind |-> "ok", ts |-> t], [kind |-> "ok", ts |-> t - (WarnAfter + 1)],
     [kind |-> "fail", ts |-> ZeroTime]}

\* a variant of the check time that is recorded whatever the query returned
CheckedAfterAlways(out, checked, t) == t

\* h.lastUpdated.timestamp and h.lastUpdated.checkedAt after the query: if err == nil
TimestampAfter(out, stamp) == IF out.kind = "ok" THEN out.ts ELSE stamp
CheckedAfter(out, checked, t) == IF out.kind = "ok" THEN t ELSE checked

\* SystemState{status, l, h.nodesLimit, timestamp.Format(time.RFC3339)}
SystemState(l, stamp, t) ==
    [Status |-> IF t - stamp > WarnAfter THEN "warn" ELSE "ok",
     QueueSize |-> l, NodesLimit |-> nodesLimit, Timestamp |-> stamp]

ServerIdle ==
    UNCHANGED <<configVars, queue, progress, fileVars, nextUuid, sending, workerVars,
                queryVars, outVars, historyVars, orderVars, pureVars>>

\* time passes
Tick ==
    /\ now < MaxTime
    /\ now' = now + 1
    /\ ran' = NoRun
    /\ served' = NoState
    /\ UNCHANGED <<timestamp, checkedAt, mutex, apc, alen>>
    /\ ServerIdle

\* l := len(h.queue)
ApiBegin(a) ==
    /\ apc[a] = "idle"
    /\ alen' = [alen EXCEPT ![a] = Len(queue)]
    /\ apc' = [apc EXCEPT ![a] = "lock"]
    /\ ran' = NoRun
    /\ served' = NoState
    /\ UNCHANGED <<now, timestamp, checkedAt, mutex>>
    /\ ServerIdle

\* h.lastUpdated.mutex.Lock(); if time.Since(checkedAt).Seconds() > 10
ApiLock(a) ==
    /\ apc[a] = "lock"
    /\ mutex = Unlocked
    /\ mutex' = a
    /\ apc' = [apc EXCEPT ![a] = IF Due(now, checkedAt) THEN "query" ELSE "respond"]
    /\ ran' = NoRun
    /\ served' = NoState
    /\ UNCHANGED <<now, timestamp, checkedAt, alen>>
    /\ ServerIdle

\* cmd.Output(); time.Parse; if err == nil the cache is written
ApiQuery(a, out) ==
    /\ apc[a] = "query"
    /\ timestamp' = TimestampAfter(out, timestamp)
    /\ checkedAt' = CheckedAfter(out, checkedAt, now)
    /\ apc' = [apc EXCEPT ![a] = "respond"]
    /\ ran' = out
    /\ served' = NoState
    /\ UNCHANGED <<now, mutex, alen>>
    /\ ServerIdle

\* timestamp := h.lastUpdated.timestamp; Unlock(); the SystemState is encoded
ApiRespond(a) ==
    /\ apc[a] = "respond"
    /\ mutex' = Unlocked
    /\ served' = SystemState(alen[a], timestamp, now)
    /\ apc' = [apc EXCEPT ![a] = "idle"]
    /\ alen' = [alen EXCEPT ![a] = 0]
    /\ ran' = NoRun
    /\ UNCHANGED <<now, timestamp, checkedAt>>
    /\ ServerIdle

\* the steps of the GET /api requests
ApiNext ==
    \/ \E a \in ApiQueries : ApiBegin(a)
    \/ \E a \in ApiQueries : ApiLock(a)
    \/ \E a \in ApiQueries, out \in ToolOutputs(now) : ApiQuery(a, out)
    \/ \E a \in ApiQueries : ApiRespond(a)

\* the steps of the POST handlers
PostNext ==
    \/ \E req \in ServerRequests : PostReject(req)
    \/ \E req \in ServerRequests : PostAdmit(req)
    \/ \E task \in sending : PostRecord(task)

\* the steps of the workers
WorkerNext ==
    \/ \E w \in Workers : Dequeue(w)
    \/ \E w \in Workers : WorkerRecord(w)
    \/ \E w \in Workers : CreateRegion(w)
    \/ \E w \in Workers : WriteEcho(w)
    \/ \E w \in Workers : StartTool(w)
    \/ \E w \in Workers, doc \in LineDocs : ReadLine(w, doc)
    \/ \E w \in Workers : ReadEnd(w)
    \/ \E w \in Workers : WaitTool(w)
    \/ \E w \in Workers : OpenArtifact(w)
    \/ \E w \in Workers : RenameArtifact(w)
    \/ \E w \in Workers : RemoveRegion(w)
    \/ \E w \in Workers : Finish(w)
    \/ \E w \in Workers : Persist(w)
    \/ \E w \in Workers : FailStep(w)

\* a step of worker w other than the reading of one more line: every call of runTask
\* returns and the tool's output ends
WorkerAdvance(w) ==
    \/ Dequeue(w)
    \/ WorkerRecord(w)
    \/ CreateRegion(w)
    \/ WriteEcho(w)
    \/ StartTool(w)
    \/ ReadEnd(w)
    \/ WaitTool(w)
    \/ OpenArtifact(w)
    \/ RenameArtifact(w)
    \/ RemoveRegion(w)
    \/ Finish(w)
    \/ Persist(w)
    \/ FailStep(w)

\* the steps of the status queries
QueryNext ==
    \/ \E q \in Queries, id \in Uuids \cup {UnknownUuid} : QueryRegistry(q, id)
    \/ \E q \in Queries : QueryStorage(q)

Next == PostNext \/ WorkerNext \/ QueryNext

\* the server: submissions of every kind, NumCPU workers and status queries
Spec == Init /\ [][Next]_vars

\* the server on a machine of one processor
InitOneCPU ==
    /\ image = ServerImage
    /\ Started(1)
    /\ PureIdle

\* submissions of every kind against one worker; no status query is made
NextAdmission == PostNext \/ WorkerNext
SpecAdmission == InitOneCPU /\ [][NextAdmission]_vars

\* admitted submissions against the workers, the queue having room for one task more
InitWorkers ==
    /\ image = ServerImage
    /\ StartedWith(NumCPU, QueueCap + 1)
    /\ PureIdle
NextWorkers ==
    \/ PostAdmit(ReqSmall)
    \/ \E task \in sending : PostRecord(task)
    \/ WorkerNext
SpecWorkers == InitWorkers /\ [][NextWorkers]_vars

\* the same on a machine of one processor
InitQueue ==
    /\ image = ServerImage
    /\ StartedWith(1, QueueCap + 1)
    /\ PureIdle
SpecQueue == InitQueue /\ [][NextWorkers]_vars

\* admitted submissions against one worker whose goroutine is scheduled fairly and
\* whose tool closes its output and exits
SpecLive ==
    /\ InitOneCPU
    /\ [][NextWorkers]_vars
    /\ WF_vars(\E w \in Workers : WorkerAdvance(w))

\* GET /api requests while time passes
NextFresh == Tick \/ ApiNext
SpecFresh == InitOneCPU /\ [][NextFresh]_vars

\* admitted submissions against one worker, with status queries
NextStatus ==
    \/ PostAdmit(ReqSmall)
    \/ \E task \in sending : PostRecord(task)
    \/ WorkerNext
    \/ QueryNext
SpecStatus == InitOneCPU /\ [][NextStatus]_vars

(***************************************************************************)
(* SpecParse: parseInput applied to one request body.                      *)
(***************************************************************************)
Points == (0..MaxCoord) \X (0..1)
Rings == UNION {[1..n -> Points] : n \in 0..MaxRingLen}
\* a ring of three coordinates that encloses area, and a ring of four that does not
ShortRing == SubSeq(Triangle, 1, 3)
FlatRing == << <<0, 0>>, <<1, 0>>, <<1, 0>>, <<0, 0>> >>
SamplePolygons ==
    {<<>>, <<Triangle>>, <<ShortRing>>, <<FlatRing>>, <<Triangle, FlatRing>>,
     <<Triangle, ShortRing>>, <<Triangle, Triangle>>, <<Triangle, <<>> >>}
Polygons == {<<r>> : r \in Rings} \cup SamplePolygons
MultiPolygons ==
    {<<>>} \cup {<<p>> : p \in Polygons}
           \cup {<<p1, p2>> : p1 \in SamplePolygons, p2 \in SamplePolygons}
Geometries ==
    {[kind |-> "Polygon", val |-> p] : p \in Polygons}
    \cup {[kind |-> "MultiPolygon", val |-> mp] : mp \in MultiPolygons}
    \cup {[kind |-> "Point", val |-> <<0, 1>>], [kind |-> "LineString", val |-> Triangle]}
Arrays ==
    {[kind |-> "array", val |-> c] :
        c \in UNION {[1..n -> 0..MaxCoord] : n \in 0..5}}
NullData == [kind |-> "null", val |-> <<>>]
SampleData ==
    {NullData, [kind |-> "Polygon", val |-> <<Triangle>>],
     [kind |-> "array", val |-> <<0, 0, 1, 1>>]}
NotJson == [json |-> FALSE, Name |-> "", RegionType |-> "", RegionData |-> NullData]
ParseBodies ==
    {Body("a_name", "geojson", d) : d \in Geometries \cup SampleData}
    \cup {Body("a_name", "bbox", d) : d \in Arrays \cup SampleData}
    \cup {Body(n, t, d) : n \in {"a_name", ""}, t \in {"geojson", "bbox", "wkt", ""},
                          d \in SampleData}
    \cup {NotJson}

InitParse ==
    /\ image = ServerImage
    /\ Started(NumCPU)
    /\ parseIn \in ParseBodies
    /\ parseOut = Nil
    /\ pixelIn = Nil /\ pixelOut = Nil
    /\ sumIn = Nil /\ sumOut = Nil

ParseCall ==
    /\ parseOut = Nil
    /\ parseOut' = parseInput(parseIn)
    /\ UNCHANGED <<configVars, queue, progress, fileVars, nextUuid, sending, workerVars,
                   queryVars, outVars, historyVars, orderVars, cacheVars, parseIn, pixelIn, pixelOut,
                   sumIn, sumOut>>

SpecParse == InitParse /\ [][ParseCall]_vars

(***************************************************************************)
(* SpecPixel: GetPixel applied to one raster and one tile.                 *)
(***************************************************************************)
\* the cells of the rasters that carry a value, and the values they carry
HotCells == {<<0, 0>>, <<1, 0>>, <<2, 3>>, <<5, 4>>}
CellValues == {[R |-> 0, G |-> 0], [R |-> 1, G |-> 2], [R |-> 255, G |-> 255]}
PixelImages == [HotCells -> CellValues]
PixelTiles ==
    {Tile(z, x, y) : z \in (12 - MaxDz)..(12 + MaxDz), x \in 0..MaxTile, y \in 0..MaxTile}

\* a raster whose cell (655, 1582) holds 15 * 256 + 146, and the tile of TestGetPixel
RegressionImage == [c \in {<<655, 1582>>} |-> [R |-> 15, G |-> 146]]
RegressionTile == Tile(14, 2620, 6331)

InitPixel ==
    /\ \/ image \in PixelImages /\ pixelIn \in PixelTiles
       \/ image = RegressionImage /\ pixelIn = RegressionTile
    /\ pixelOut = Nil
    /\ Started(NumCPU)
    /\ parseIn = Nil /\ parseOut = Nil
    /\ sumIn = Nil /\ sumOut = Nil

PixelCall ==
    /\ pixelOut = Nil
    /\ pixelOut' = GetPixel(image, pixelIn.Z, pixelIn.X, pixelIn.Y)
    /\ UNCHANGED <<configVars, queue, progress, fileVars, nextUuid, sending, workerVars,
                   queryVars, outVars, historyVars, orderVars, cacheVars, parseIn, parseOut, pixelIn,
                   sumIn, sumOut>>

SpecPixel == InitPixel /\ [][PixelCall]_vars

(***************************************************************************)
(* SpecSum: GetSum applied to one raster and the coverings of one          *)
(* geometry.  The coverings are rows of tiles: one tile at the low zooms,  *)
(* `before` tiles at the zoom below `first`, 257 tiles from `first` on.    *)
(***************************************************************************)
Row(z, n) == {Tile(z, x, 0) : x \in 0..(n - 1)}
CoverFrom(first, before) ==
    [z \in 0..14 |-> IF z >= first THEN Row(z, 257)
                     ELSE IF z = first - 1 THEN Row(z, before)
                     ELSE Row(z, 1)]
SumCovers ==
    {CoverFrom(first, before) : first \in (12 - MaxDz)..15, before \in {1, 256}}

\* the rasters of SpecSum: the two cells off the first rows hold the same value
SumImages == {img \in PixelImages : img[<<2, 3>>] = img[<<5, 4>>]}

InitSum ==
    /\ image \in SumImages
    /\ sumIn \in SumCovers
    /\ sumOut = Nil
    /\ Started(NumCPU)
    /\ parseIn = Nil /\ parseOut = Nil
    /\ pixelIn = Nil /\ pixelOut = Nil

SumCall ==
    /\ sumOut = Nil
    /\ sumOut' = [sum |-> GetSum(image, sumIn)]
    /\ UNCHANGED <<configVars, queue, progress, fileVars, nextUuid, sending, workerVars,
                   queryVars, outVars, historyVars, orderVars, cacheVars, parseIn, parseOut,
                   pixelIn, pixelOut, sumIn>>

SpecSum == InitSum /\ [][SumCall]_vars

(***************************************************************************)
(* What the claims speak of.                                               *)
(***************************************************************************)
QueuedIds == {queue[i].Uuid : i \in 1..Len(queue)}
RunningIds == {wtask[w].Uuid : w \in {v \in Workers : wpc[v] # "idle"}}
SendingIds == {t.Uuid : t \in sending}
IssuedIds == DOMAIN origin
\* the identifiers whose submission was answered 503: issued and never sent
RejectedIds == IssuedIds \ (QueuedIds \cup RunningIds \cup completed \cup failed)
HasRecord(id) == RecordFile(id) \in DOMAIN filesDir
FilesOf(id) == {f \in DOMAIN filesDir \cup DOMAIN tmpDir : f[1] = id}
\* the request passes validation and its estimate is within the node limit
Admissible(req) ==
    /\ ~parseInput(req.body).err
    /\ GetSum(image, req.cover) <= nodesLimit

(***************************************************************************)
(* C1: a submission that passes validation and admission while the queue   *)
(* holds its full capacity is answered 503 in the very step that finds the *)
(* queue full (the handler is never disabled by a full queue), the queue   *)
(* never holds more than its capacity, the rejected submission leaves the  *)
(* queue and the registry as they were, and no registry entry or file is   *)
(* ever created under its identifier.                                      *)
(***************************************************************************)
C1_Capacity ==
    /\ Len(queue) <= QueueCap
    /\ \A id \in RejectedIds : id \notin DOMAIN progress /\ FilesOf(id) = {}
    /\ posted.resp.code = 503 => Len(queue) = QueueCap
    /\ (Len(queue) >= QueueCap /\ nextUuid <= MaxTasks) => ENABLED PostAdmit(ReqSmall)

C1_Step ==
    (nextUuid' # nextUuid /\ Len(queue) >= QueueCap)
        => /\ posted'.resp.code = 503
           /\ queue' = queue
           /\ progress' = progress
           /\ sending' = sending

C1_QueueFullRejects == []C1_Capacity /\ [][C1_Step]_vars

C1_Witness ==
    /\ posted.resp.code = 503
    /\ posted.req = ReqSmall
    /\ Len(queue) = QueueCap
    /\ (nextUuid - 1) \in RejectedIds

(***************************************************************************)
(* C2: in every reachable state the registry holds an entry for a task    *)
(* identifier exactly when that task is in the queue or with a worker.     *)
(***************************************************************************)
C2_EntryIffOutstanding ==
    \A id \in Uuids : id \in DOMAIN progress <=> id \in QueuedIds \cup RunningIds

(***************************************************************************)
(* C3: once runTask has returned an error for a task, the registry holds   *)
(* no entry for its identifier and no completion record exists under it,   *)
(* and a status query for it is answered 404.                              *)
(***************************************************************************)
C3_FailedLeavesNothing ==
    \A id \in failed :
        /\ id \notin DOMAIN progress
        /\ ~HasRecord(id)
        /\ (answered.id = id /\ answered.resp # NoResponse) => answered.resp.code = 404

(***************************************************************************)
(* C4: once a task has completed, the registry holds no entry for its      *)
(* identifier and a completion record exists under it; an entry and a      *)
(* completion record for the same identifier never coexist.                *)
(***************************************************************************)
C4_CompletedLeavesRecordOnly ==
    \A id \in Uuids :
        /\ id \in completed => id \notin DOMAIN progress /\ HasRecord(id)
        /\ ~(id \in DOMAIN progress /\ HasRecord(id))

(***************************************************************************)
(* C5: a task whose submission was answered 201 and which completes is     *)
(* never answered 404 by a status query begun after the 201.               *)
(***************************************************************************)
C5_NeverNotFound == \A id \in completed : id \notin notFound

(***************************************************************************)
(* C6: a status query is answered with the registry's snapshot when the    *)
(* identifier is in the registry, also when a completion record exists     *)
(* under it; otherwise it goes on to storage and is answered with the      *)
(* completion record when one exists and with 404 when none does; no step  *)
(* of a query changes the registry, the queue or the files.                *)
(***************************************************************************)
C6_Step ==
    \A q \in Queries :
        /\ (qpc[q] = "idle" /\ answered' # NoAnswer)
              => /\ answered'.id \in DOMAIN progress
                 /\ answered'.resp = Response(200, progress[answered'.id])
        /\ (qpc[q] = "idle" /\ qpc'[q] = "stat")
              => /\ qid'[q] \notin DOMAIN progress
                 /\ answered' = NoAnswer
        /\ (qpc[q] = "stat" /\ qpc'[q] = "idle")
              => /\ answered'.id = qid[q]
                 /\ HasRecord(qid[q])
                       => answered'.resp = Response(200, filesDir[RecordFile(qid[q])])
                 /\ ~HasRecord(qid[q]) => answered'.resp = Response(404, Nil)
        /\ (qpc'[q] # qpc[q] \/ answered' # NoAnswer)
              => UNCHANGED <<queue, progress, filesDir, tmpDir>>

C7_Admitted ==
    /\ \A id \in QueuedIds \cup RunningIds \cup DOMAIN progress \cup SendingIds :
          id \in IssuedIds /\ Admissible(origin[id])
    /\ posted.resp.code = 400 => ~Admissible(posted.req)
    /\ posted.resp.code \in {201, 503} => Admissible(posted.req)

C7_Step ==
    posted'.resp.code = 400
        => UNCHANGED <<queue, progress, sending, nextUuid, origin, filesDir, tmpDir>>

C7_AdmissionGates == []C7_Admitted /\ [][C7_Step]_vars

C7_Witness ==
    /\ posted.resp.code = 400
    /\ posted.req = ReqLarge
    /\ Len(queue) = QueueCap
    /\ \E w \in Workers : wpc[w] = "read"

(***************************************************************************)
(* C9: parseInput returns an error and no geometry for every geojson       *)
(* Polygon with no ring or with a ring of fewer than 4 coordinates, for    *)
(* every MultiPolygon with no polygon, with a polygon without rings or     *)
(* with a ring of fewer than 4 coordinates, for every region of zero       *)
(* planar area and for every region type other than geojson and bbox; an   *)
(* accepted input is returned with its name and its region type unchanged. *)
(***************************************************************************)
C9_Rejected == parseOut.err /\ parseOut.geom = Nil

C9_ParseInputRejects ==
    parseOut # Nil =>
        LET b == parseIn
            d == parseIn.RegionData
            geo == parseIn.json /\ parseIn.RegionType = "geojson"
            box == parseIn.json /\ parseIn.RegionType = "bbox"
        IN
        /\ (geo /\ d.kind = "Polygon"
                /\ (d.val = <<>> \/ \E i \in DOMAIN d.val : Len(d.val[i]) < 4))
              => C9_Rejected
        /\ (geo /\ d.kind = "MultiPolygon"
                /\ (\/ d.val = <<>>
                    \/ \E p \in DOMAIN d.val :
                          \/ d.val[p] = <<>>
                          \/ \E i \in DOMAIN d.val[p] : Len(d.val[p][i]) < 4))
              => C9_Rejected
        /\ (geo /\ d.kind \in {"Point", "LineString", "Polygon", "MultiPolygon"}
                /\ Area2(d) = 0)
              => C9_Rejected
        /\ (box /\ d.kind = "array" /\ Len(d.val) >= 4
                /\ (d.val[1] = d.val[3] \/ d.val[2] = d.val[4]))
              => C9_Rejected
        /\ (b.json /\ b.RegionType \notin {"geojson", "bbox"}) => C9_Rejected
        /\ ~parseOut.err
              => /\ parseOut.name = b.Name
                 /\ parseOut.regionType = b.RegionType
                 /\ parseOut.geom # Nil

\* a polygon whose one ring has three coordinates and encloses area is rejected
C9_Witness ==
    /\ parseOut # Nil
    /\ parseIn = Body("a_name", "geojson", [kind |-> "Polygon", val |-> <<ShortRing>>])
    /\ Area2(parseIn.RegionData) # 0
    /\ C9_Rejected

(***************************************************************************)
(* C10: GetPixel is the reference density: below zoom 12 the sum of the    *)
(* raw values (high byte * 256 + low byte) of the 2^(12-z) by 2^(12-z)     *)
(* block of reference cells starting at (x * 2^(12-z), y * 2^(12-z)); at   *)
(* zoom 12 the raw value of cell (x, y); above zoom 12 the raw value of    *)
(* cell (x div 2^(z-12), y div 2^(z-12)) divided by 2^(2*(z-12)).  With    *)
(* 15 * 256 + 146 in cell (655, 1582), tile (14, 2620, 6331) has 249.125.  *)
(***************************************************************************)
C10_Raw(x, y) == At(image, x, y).R * 256 + At(image, x, y).G

RECURSIVE C10_SumRaw(_)
C10_SumRaw(cells) ==
    IF cells = {} THEN 0
    ELSE LET c == CHOOSE u \in cells : TRUE IN
         C10_Raw(c[1], c[2]) + C10_SumRaw(cells \ {c})

C10_GetPixelReference ==
    pixelOut # Nil =>
        LET z == pixelIn.Z
            x == pixelIn.X
            y == pixelIn.Y
        IN
        /\ z < 12 =>
              LET n == 2 ^ (12 - z) IN
              /\ pixelOut.den = 1
              /\ pixelOut.num =
                    C10_SumRaw(((x * n)..(x * n + n - 1)) \X ((y * n)..(y * n + n - 1)))
        /\ z = 12 => pixelOut = [num |-> C10_Raw(x, y), den |-> 1]
        /\ z > 12 =>
              LET n == 2 ^ (z - 12) IN
              /\ pixelOut.den > 0
              /\ pixelOut.num * 2 ^ (2 * (z - 12)) = C10_Raw(x \div n, y \div n) * pixelOut.den
        /\ (image = RegressionImage /\ pixelIn = RegressionTile)
              => pixelOut.num * 1000 = 249125 * pixelOut.den

\* a coarse tile whose block holds two cells with a value: their sum is returned
C10_Witness ==
    /\ pixelOut # Nil
    /\ pixelIn = Tile(11, 0, 0)
    /\ C10_Raw(0, 0) > 0
    /\ C10_Raw(1, 0) > 0
    /\ C10_Raw(0, 0) # C10_Raw(1, 0)
    /\ pixelOut.num = C10_Raw(0, 0) + C10_Raw(1, 0)

(***************************************************************************)
(* C11: a GET /api request runs the timestamp query only when more than    *)
(* 10 seconds have passed since the recorded check time, and then it does  *)
(* run it; a query that succeeds sets the cached timestamp to its result   *)
(* and the check time to the current time; a query that fails leaves both  *)
(* as they were, so the stale timestamp is served and the next request     *)
(* finds the cache due again; no other step writes the cache; a request    *)
(* runs the query only while it holds the lock, so at most one runs.       *)
(***************************************************************************)
C11_Querying == {a \in ApiQueries : apc[a] = "query"}

C11_Serialized ==
    /\ Cardinality(C11_Querying) <= 1
    /\ \A a \in ApiQueries : apc[a] \in {"query", "respond"} => mutex = a

C11_Step ==
    /\ \A a \in ApiQueries :
          (apc[a] = "lock" /\ apc'[a] # "lock")
              => (apc'[a] = "query" <=> now - checkedAt > 10)
    /\ ran'.kind = "ok" => (timestamp' = ran'.ts /\ checkedAt' = now)
    /\ ran'.kind = "fail" => (timestamp' = timestamp /\ checkedAt' = checkedAt)
    /\ ran'.kind = "none" => (timestamp' = timestamp /\ checkedAt' = checkedAt)
    /\ ran'.kind # "none" => C11_Querying # {}
    /\ served' # NoState => served'.Timestamp = timestamp

C11_FreshnessCache == []C11_Serialized /\ [][C11_Step]_vars

\* a timestamp query fails after an earlier one succeeded: the cache is as it was
C11_Witness ==
    /\ ran.kind = "fail"
    /\ checkedAt # ZeroTime
    /\ now - checkedAt > 10
    /\ timestamp # ZeroTime
    /\ \E a \in ApiQueries : apc[a] = "lock"

(***************************************************************************)
(* C12: every worker holds at most one task, and holds one exactly while   *)
(* it is not waiting on the queue; no task is held by two workers or held  *)
(* while still in the queue; the number of running tasks never exceeds the *)
(* number of workers, which is fixed; a worker takes a task only when it   *)
(* is waiting on the queue, that is after runTask has returned.            *)
(***************************************************************************)
C12_Busy == {w \in Workers : wpc[w] # "idle"}

C12_OneEach ==
    /\ \A w \in Workers : (wpc[w] = "idle") <=> (wtask[w] = NoTask)
    /\ \A w1, w2 \in C12_Busy : w1 # w2 => wtask[w1].Uuid # wtask[w2].Uuid
    /\ \A w \in C12_Busy : \A i \in 1..Len(queue) : queue[i].Uuid # wtask[w].Uuid
    /\ Cardinality(RunningIds) = Cardinality(C12_Busy)
    /\ Cardinality(RunningIds) <= NumCPU
    /\ Cardinality(Workers) = NumCPU

C12_Step ==
    /\ DOMAIN wpc' = DOMAIN wpc
    /\ \A w \in Workers :
          (wtask'[w] # wtask[w] /\ wtask'[w] # NoTask)
              => (wpc[w] = "idle" /\ wtask[w] = NoTask /\ queue # <<>>)

C12_OneTaskPerWorker == []C12_OneEach /\ [][C12_Step]_vars

\* both workers run a task at once
C12_Witness ==
    /\ Cardinality(C12_Busy) = 2
    /\ Cardinality(RunningIds) = 2
    /\ \E w \in Workers : wpc[w] = "read"

(***************************************************************************)
(* C13: a task only moves forward through Queued, Running and Completed or *)
(* Failed: it is received from the queue at most once and only after it    *)
(* was sent to it, its positions in runTask only advance (the tool is      *)
(* started at most once), and a task that completed or failed stays so, is *)
(* never both, and is never again in the queue or with a worker.           *)
(***************************************************************************)
C13_Range(seq) == {seq[i] : i \in 1..Len(seq)}
C13_NoRepeat(seq) == \A i, j \in 1..Len(seq) : i # j => seq[i] # seq[j]
C13_Rank(pos) ==
    CASE pos = "record" -> 1 [] pos = "create" -> 2 [] pos = "echo" -> 3
      [] pos = "start" -> 4 [] pos = "read" -> 5 [] pos = "wait" -> 6
      [] pos = "open" -> 7 [] pos = "rename" -> 8 [] pos = "remove" -> 9
      [] pos = "finish" -> 10 [] pos = "persist" -> 11 [] OTHER -> 0

C13_Forward ==
    /\ completed \cap failed = {}
    /\ (completed \cup failed) \cap (QueuedIds \cup RunningIds) = {}
    /\ QueuedIds \cap RunningIds = {}
    /\ C13_NoRepeat(arrived)
    /\ C13_NoRepeat(departed)
    /\ C13_NoRepeat([i \in 1..Len(queue) |-> queue[i].Uuid])
    /\ C13_Range(departed) \subseteq C13_Range(arrived)
    /\ RunningIds \cup completed \cup failed = C13_Range(departed)
    /\ QueuedIds = C13_Range(arrived) \ C13_Range(departed)

C13_Step ==
    /\ completed \subseteq completed'
    /\ failed \subseteq failed'
    /\ \A w \in Workers :
          (wtask[w] # NoTask /\ wtask'[w] = wtask[w])
              => C13_Rank(wpc'[w]) >= C13_Rank(wpc[w])
    /\ \A w \in Workers :
          (wtask[w] # NoTask /\ wtask'[w] # wtask[w])
              => wtask[w].Uuid \in completed' \cup failed'

C13_StateMachine == []C13_Forward /\ [][C13_Step]_vars

\* one task has completed and another has failed after its echo was written
C13_Witness ==
    /\ completed # {}
    /\ failed # {}
    /\ \E id \in failed : EchoFile(id) \in DOMAIN filesDir
    /\ queue = <<>>
    /\ RunningIds = {}

(***************************************************************************)
(* C16: the tasks are received from the queue in the order in which they   *)
(* were sent to it: the identifiers received are, in order, the first of   *)
(* the identifiers sent, and the queue holds the rest in the order sent.   *)
(* The order in which tasks finish may differ.                             *)
(***************************************************************************)
C16_Fifo ==
    /\ Len(departed) <= Len(arrived)
    /\ \A i \in 1..Len(departed) : departed[i] = arrived[i]
    /\ Len(queue) = Len(arrived) - Len(departed)
    /\ \A i \in 1..Len(queue) : queue[i].Uuid = arrived[Len(departed) + i]

\* two tasks were received in the order sent and the second finished first
C16_Witness ==
    /\ Len(departed) = 2
    /\ departed[2] \in completed
    /\ departed[1] \in RunningIds

(***************************************************************************)
(* C20: whenever a completion record exists under an identifier, the       *)
(* artifact <id>.osm.pbf is in the files directory and neither the         *)
(* temporary artifact nor the temporary region file of that task is in the *)
(* temporary directory.                                                    *)
(***************************************************************************)
C20_RecordImpliesArtifact ==
    \A id \in Uuids :
        HasRecord(id) =>
            /\ PbfFile(id) \in DOMAIN filesDir
            /\ \A f \in DOMAIN tmpDir : f[1] # id
            /\ filesDir[RecordFile(id)].Complete
            /\ filesDir[RecordFile(id)].SizeBytes = filesDir[PbfFile(id)]

\* a record has been written while another task's temporary files still exist
C20_Witness ==
    /\ \E id \in Uuids : HasRecord(id)
    /\ DOMAIN tmpDir # {}

(***************************************************************************)
(* C19: with fair workers and tools that close their output and exit,      *)
(* every task whose submission was answered 201 reaches Completed or       *)
(* Failed, which it does only after a worker received it; a worker is      *)
(* always either waiting on the queue or inside runTask, and is waiting on *)
(* the queue again and again, whether its task failed or not, so the tasks *)
(* behind a failed task are processed too.                                 *)
(***************************************************************************)
C19_InLoop ==
    \A w \in Workers : wpc[w] \in {"idle", "record", "finish"} \cup FailingPositions

C19_Settled(id) == id \in completed \cup failed

C19_Received(id) == \E i \in 1..Len(departed) : departed[i] = id

C19_WorkersIdle == \A w \in Workers : wpc[w] = "idle"

C19_SettledWereReceived == \A id \in Uuids : C19_Settled(id) => C19_Received(id)

C19_AcceptedTasksFinish ==
    /\ [](C19_InLoop /\ C19_SettledWereReceived)
    /\ \A id \in Uuids : (id \in accepted) ~> C19_Settled(id)
    /\ []<>C19_WorkersIdle

\* a task failed, a task accepted after it completed, and the worker waits again
C19_Witness ==
    /\ \E i, j \in Uuids :
           /\ C19_Received(i) /\ C19_Received(j)
           /\ \E m, n \in 1..Len(departed) : m < n /\ departed[m] = i /\ departed[n] = j
           /\ i \in failed
           /\ j \in accepted /\ j \in completed
    /\ C19_WorkersIdle

(***************************************************************************)
(* C14: while a worker runs a task (from its first registry write to its   *)
(* removal of the entry), the registry entry of the task is the document   *)
(* of the last line the worker read, with every field the line lacks at    *)
(* zero, or the empty snapshot when it has read no line; so once a line    *)
(* has been stored the entry is never the empty snapshot again.            *)
(***************************************************************************)
C14_Snapshot(id) ==
    IF id \in DOMAIN lastLine
    THEN [f \in ProgressFields |->
             IF f \in DOMAIN lastLine[id] THEN lastLine[id][f] ELSE ZeroOf(f)]
    ELSE EmptyProgress

C14_EntryIsLastLine ==
    \A w \in Workers :
        wpc[w] \in {"create", "echo", "start", "read", "wait", "open", "rename",
                    "remove", "finish"}
            => /\ wtask[w].Uuid \in DOMAIN progress
               /\ progress[wtask[w].Uuid] = C14_Snapshot(wtask[w].Uuid)

(***************************************************************************)
(* C15: the echo file <id>_region.json exists only for a task that has     *)
(* completed successfully.                                                 *)
(***************************************************************************)
C15_EchoOnlyAfterCompletion ==
    \A id \in Uuids : EchoFile(id) \in DOMAIN filesDir => id \in completed

(***************************************************************************)
(* C18: the completion record of a completed task has the completion flag  *)
(* set and carries the counters of the last line its worker read (zeros    *)
(* when the tool printed no line).                                         *)
(***************************************************************************)
C18_Counters ==
    {"Timestamp", "CellsTotal", "CellsProg", "NodesTotal", "NodesProg",
     "ElemsTotal", "ElemsProg"}

C18_RecordCarriesLastLine ==
    \A id \in completed :
        /\ HasRecord(id)
        /\ filesDir[RecordFile(id)].Complete
        /\ \A f \in C18_Counters :
              filesDir[RecordFile(id)][f] = C14_Snapshot(id)[f]

(***************************************************************************)
(* C17: GetSum uses the covering of the first zoom among 0, 1, ..., 14     *)
(* whose covering has more than 256 tiles, or of zoom 14 when none has,    *)
(* and returns the sum of GetPixel over the tiles of that covering,        *)
(* multiplied by 32 and truncated to an integer.                           *)
(***************************************************************************)
C17_Over(cover) == {z \in 0..14 : Cardinality(cover[z]) > 256}
C17_Zoom(cover) ==
    IF C17_Over(cover) = {} THEN 14
    ELSE CHOOSE z \in C17_Over(cover) : \A y \in C17_Over(cover) : z <= y

\* GetPixel of a tile in units of 1/16 (no denominator exceeds 16), and the sum
\* over the tiles: each value times the number of tiles that have it
C17_Value(t) ==
    LET v == GetPixel(image, t.Z, t.X, t.Y) IN (v.num * 16) \div v.den

RECURSIVE C17_Weighted(_, _)
C17_Weighted(values, tiles) ==
    IF values = {} THEN 0
    ELSE LET v == CHOOSE u \in values : TRUE IN
         v * Cardinality({t \in tiles : C17_Value(t) = v})
             + C17_Weighted(values \ {v}, tiles)

C17_Sixteenths(tiles) == C17_Weighted({C17_Value(t) : t \in tiles}, tiles)

C17_GetSumSelectsZoom ==
    sumOut # Nil =>
        sumOut.sum = (32 * C17_Sixteenths(sumIn[C17_Zoom(sumIn)])) \div 16

\* the zoom below the one used has exactly 256 tiles, and the two sums differ
C17_Witness ==
    /\ sumOut # Nil
    /\ C17_Zoom(sumIn) = 13
    /\ Cardinality(sumIn[12]) = 256
    /\ sumOut.sum > 0
    /\ sumOut.sum # (32 * C17_Sixteenths(sumIn[12])) \div 16

=============================================================================
